---- MODULE Spec2Model ----
(***************************************************************************)
(* Model of utils/project_classes.py: the Truvi ingestion object.          *)
(*                                                                         *)
(* One call of Truvi.main is modelled step by step: the truncate of        *)
(* data.raw_data, the page loop (get_api_data, check_write_df, the         *)
(* termination predicate and the page increment), post_processing, and     *)
(* the except / finally clauses that close the call.                       *)
(*                                                                         *)
(* The upstream API, the database and the file system are the environment. *)
(* The API is either unconstrained (every response is any page_info and    *)
(* any frame shape) or a paged server that echoes the requested page and   *)
(* serves a fixed per_page and total.  Page numbers, page sizes and totals *)
(* are counts: the model draws them from the naturals.                     *)
(*                                                                         *)
(* A DataFrame is modelled by its shape (rows, cols).  The names of the    *)
(* columns are not modelled, so the per-column "Converted ... to datetime" *)
(* debug lines of check_write_df are not in the log; a failing to_datetime *)
(* is an outcome of CheckWrite.                                            *)
(***************************************************************************)
EXTENDS Integers, Sequences, FiniteSets

VARIABLES
    server,          \* the upstream API behind requests.get
    loaded_page,     \* api_filters["page"] as parse_config returned it
    api_filters,     \* self.api_filters; api_parameters is the same dict
    pc,              \* position inside Truvi.main
    rawTable,        \* data.raw_data: one entry per row, tagged by its batch
    requested,       \* the page parameter sent by the latest requests.get
    page_info,       \* page_info returned by the latest get_api_data
    df,              \* df returned by the latest get_api_data
    batches,         \* the frames get_api_data has returned in this call
    fetches,         \* calls of get_api_data in this call
    writes,          \* calls of DataFrame.to_sql in this call
    post_calls,      \* calls of post_processing in this call
    to_csv_calls,    \* calls of DataFrame.to_csv in this call
    data,            \* rows post_processing read from data.final_table
    final_table_csv, \* rows held by final_table.csv, NoFile when absent
    error,           \* the exception raised inside the try block
    raised,          \* the exception leaving Truvi.main
    log              \* the records logged by this call

vars == <<server, loaded_page, api_filters, pc, rawTable, requested, page_info,
          df, batches, fetches, writes, post_calls, to_csv_calls, data,
          final_table_csv, error, raised, log>>

----------------------------------------------------------------------------
(* Bounds of the model *)

MaxTotal == 3
MaxPerPage == 2
MaxPage == 2
MaxRows == 2
MaxStartPage == 1
MaxPrior == 2
MaxFetch == 2
MaxViewRows == 1

(* The column count check_write_df expects *)
ExpectedCols == 5

----------------------------------------------------------------------------
(* Values *)

Min(a, b) == IF a < b THEN a ELSE b
Max(a, b) == IF a > b THEN a ELSE b

NoFile == -1
NoData == -1
NoPage == -1
NoFrame == [rows |-> -1, cols |-> -1]
NoInfo == [page |-> -1, per_page |-> -1, total |-> -1]
NoError == [step |-> "none", type |-> "none"]
PriorRow == 0

ColumnCounts == {0, ExpectedCols - 1, ExpectedCols, ExpectedCols + 1}

(* pd.DataFrame(results): an empty results array gives a frame with no rows *)
(* and no columns; a results array of n objects gives n rows and as many    *)
(* columns as the objects have keys (none, for objects without keys).       *)
Frames ==
    {[rows |-> 0, cols |-> 0]} \cup
    {[rows |-> r, cols |-> c] : r \in 1..MaxRows, c \in ColumnCounts}

PageInfos ==
    {[page |-> p, per_page |-> pp, total |-> t] :
        p \in 0..MaxPage, pp \in 0..MaxPerPage, t \in 0..MaxTotal}

Servers ==
    {[mode |-> "any", per_page |-> 0, total |-> 0]} \cup
    {[mode |-> "paged", per_page |-> pp, total |-> t] :
        pp \in 1..MaxPerPage, t \in 0..MaxTotal}

PagedServers == {s \in Servers : s.mode = "paged"}

(* Rows a paged server holds for one page *)
SliceRows(srv, page) ==
    IF page < 1 THEN 0
    ELSE Max(0, Min(srv.per_page, srv.total - (page - 1) * srv.per_page))

(* The (df, page_info) pairs get_api_data can return for one request *)
Responses(srv, page) ==
    IF srv.mode = "any"
    THEN {[info |-> i, df |-> f] : i \in PageInfos, f \in Frames}
    ELSE {[info |-> [page |-> page, per_page |-> srv.per_page, total |-> srv.total],
           df |-> f] : f \in {g \in Frames : g.rows = SliceRows(srv, page)}}

(* The model stops an unconstrained server after MaxFetch requests; a paged *)
(* server needs at most total + 1 requests, so its cap is never reached.    *)
FetchCap(srv) == IF srv.mode = "any" THEN MaxFetch ELSE srv.total + 2

Entry(level, msg) == [level |-> level, msg |-> msg]

Stopped == Entry("info", "Object function stopped")

(* Exceptions of the database driver.  query_local_db catches, logs and    *)
(* re-raises OperationalError, ProgrammingError, IntegrityError and        *)
(* RaiseException; any other exception leaves it unlogged.                 *)
LoggedErrors == {"OperationalError", "ProgrammingError", "IntegrityError", "RaiseException"}
QueryErrors == {"OperationalError", "InterfaceError"}
FetchErrors == {"HTTPError"}

----------------------------------------------------------------------------
(* Pure parts of the code *)

(* query_local_db: what it logs for an outcome of the statement *)
query_local_db(outcome) ==
    IF outcome = "ok" THEN <<Entry("debug", "query executed")>>
    ELSE IF outcome \in LoggedErrors THEN <<Entry("critical", "query failed")>>
    ELSE << >>

(* Variant: the truncate is not executed *)
TruncateTableSkipped(t) == t

(* truncate table data.raw_data *)
TruncateTable(t) == << >>

(* Variant: no test for an empty frame *)
IsEmptyFrameNever(f) == FALSE

(* df.empty: any axis of length 0 *)
IsEmptyFrame(f) == f.rows = 0 \/ f.cols = 0

(* Variant: cols < 5 *)
ColumnCheckBelow(f) == f.cols < ExpectedCols

(* cols != 5 *)
ColumnCheckFails(f) == f.cols # ExpectedCols

(* Variant: if_exists="replace" *)
ToSqlReplace(t, f, k) == [i \in 1..f.rows |-> k]

(* df.to_sql(..., if_exists="append"): the rows of batch k after the rows held *)
ToSql(t, f, k) == t \o [i \in 1..f.rows |-> k]

(* Variant: > for >= *)
TerminationPredicateStrict(info) == info.page * info.per_page > info.total

(* Variant: the last row is not waited for *)
TerminationPredicateOffByOne(info) == info.page * info.per_page >= info.total - 1

(* page_info["page"] * page_info["per_page"] >= page_info["total"] *)
TerminationPredicate(info) == info.page * info.per_page >= info.total

(* Variant: the page is not incremented *)
NextPageSame(p) == p

(* api_parameters["page"] += 1 *)
NextPage(p) == p + 1

(* Variant: the test never finds the view empty *)
ViewIsEmptyNever(n) == n < 0

(* len(data) == 0 *)
ViewIsEmpty(n) == n = 0

(* Variant: except for the database errors only *)
CatchesDatabaseOnly(e) == e \in LoggedErrors

(* except Exception: every exception the steps raise is an Exception *)
Catches(e) == TRUE

----------------------------------------------------------------------------
(* Initial states *)

InitWith(S) ==
    /\ server \in S
    /\ loaded_page \in 0..MaxStartPage
    /\ api_filters = [page |-> loaded_page]
    /\ pc = "idle"
    /\ rawTable \in {[i \in 1..n |-> PriorRow] : n \in 0..MaxPrior}
    /\ requested = NoPage
    /\ page_info = NoInfo
    /\ df = NoFrame
    /\ batches = << >>
    /\ fetches = 0
    /\ writes = 0
    /\ post_calls = 0
    /\ to_csv_calls = 0
    /\ data = NoData
    /\ final_table_csv = NoFile
    /\ error = NoError
    /\ raised = "none"
    /\ log = << >>

Init == InitWith(Servers)

InitPaged == InitWith(PagedServers)

----------------------------------------------------------------------------
(* Steps of Truvi.main *)

(* api_parameters = self.api_filters: a second name for the same dict *)
CallMain ==
    /\ pc = "idle"
    /\ pc' = "truncate"
    /\ UNCHANGED <<server, loaded_page, api_filters, rawTable, requested, page_info,
                   df, batches, fetches, writes, post_calls, to_csv_calls, data,
                   final_table_csv, error, raised, log>>

Truncate ==
    /\ pc = "truncate"
    /\ \/ /\ rawTable' = TruncateTable(rawTable)
          /\ log' = log \o query_local_db("ok")
          /\ pc' = "fetch"
          /\ error' = error
       \/ \E e \in QueryErrors :
          /\ log' = log \o query_local_db(e)
          /\ error' = [step |-> "truncate", type |-> e]
          /\ pc' = "except"
          /\ rawTable' = rawTable
    /\ UNCHANGED <<server, loaded_page, api_filters, requested, page_info, df,
                   batches, fetches, writes, post_calls, to_csv_calls, data,
                   final_table_csv, raised>>

get_api_data ==
    /\ pc = "fetch"
    /\ fetches < FetchCap(server)
    /\ fetches' = fetches + 1
    /\ requested' = api_filters.page
    /\ \/ \E r \in Responses(server, api_filters.page) :
          /\ page_info' = r.info
          /\ df' = r.df
          /\ batches' = Append(batches, r.df)
          /\ log' = Append(log, Entry("info", "Fetched page"))
          /\ pc' = "check_write"
          /\ error' = error
       \/ \E e \in FetchErrors :
          /\ error' = [step |-> "fetch", type |-> e]
          /\ pc' = "except"
          /\ UNCHANGED <<page_info, df, batches, log>>
    /\ UNCHANGED <<server, loaded_page, api_filters, rawTable, writes, post_calls,
                   to_csv_calls, data, final_table_csv, raised>>

check_write_df ==
    /\ pc = "check_write"
    /\ IF IsEmptyFrame(df)
       THEN /\ log' = Append(log, Entry("info", "Empty DataFrame"))
            /\ pc' = "predicate"
            /\ UNCHANGED <<rawTable, writes, error>>
       ELSE IF ColumnCheckFails(df)
       THEN /\ error' = [step |-> "check_write", type |-> "IndexError"]
            /\ pc' = "except"
            /\ UNCHANGED <<rawTable, writes, log>>
       ELSE \/ /\ error' = [step |-> "check_write", type |-> "ParserError"]
               /\ pc' = "except"
               /\ UNCHANGED <<rawTable, writes, log>>
            \/ /\ writes' = writes + 1
               /\ error' = [step |-> "check_write", type |-> "DBAPIError"]
               /\ pc' = "except"
               /\ UNCHANGED <<rawTable, log>>
            \/ /\ writes' = writes + 1
               /\ rawTable' = ToSql(rawTable, df, fetches)
               /\ log' = Append(log, Entry("debug", "Dataframe written to database"))
               /\ pc' = "predicate"
               /\ error' = error
    /\ UNCHANGED <<server, loaded_page, api_filters, requested, page_info, df,
                   batches, fetches, post_calls, to_csv_calls, data,
                   final_table_csv, raised>>

Predicate ==
    /\ pc = "predicate"
    /\ IF TerminationPredicate(page_info)
       THEN /\ log' = Append(log, Entry("info", "All pages fetched"))
            /\ pc' = "post"
            /\ api_filters' = api_filters
       ELSE /\ api_filters' = [api_filters EXCEPT !.page = NextPage(@)]
            /\ pc' = "fetch"
            /\ log' = log
    /\ UNCHANGED <<server, loaded_page, rawTable, requested, page_info, df, batches,
                   fetches, writes, post_calls, to_csv_calls, data,
                   final_table_csv, error, raised>>

post_processing ==
    /\ pc = "post"
    /\ post_calls' = post_calls + 1
    /\ \/ \E e \in QueryErrors :
          /\ log' = log \o query_local_db(e)
          /\ error' = [step |-> "post", type |-> e]
          /\ pc' = "except"
          /\ UNCHANGED <<data, to_csv_calls, final_table_csv>>
       \/ \E n \in 0..MaxViewRows :
          /\ data' = n
          /\ IF ViewIsEmpty(n)
             THEN /\ log' = log \o query_local_db("ok")
                  /\ error' = [step |-> "post", type |-> "ValueError: No data in view"]
                  /\ pc' = "except"
                  /\ UNCHANGED <<to_csv_calls, final_table_csv>>
             ELSE \/ \E e \in QueryErrors :
                     /\ log' = log \o query_local_db("ok") \o query_local_db(e)
                     /\ error' = [step |-> "post", type |-> e]
                     /\ pc' = "except"
                     /\ UNCHANGED <<to_csv_calls, final_table_csv>>
                  \/ /\ log' = log \o query_local_db("ok") \o query_local_db("ok")
                     /\ error' = [step |-> "post", type |-> "ValueError: columns"]
                     /\ pc' = "except"
                     /\ UNCHANGED <<to_csv_calls, final_table_csv>>
                  \/ \E kept \in {final_table_csv} \cup 0..(n - 1) :
                     /\ log' = log \o query_local_db("ok") \o query_local_db("ok")
                     /\ to_csv_calls' = to_csv_calls + 1
                     /\ final_table_csv' = kept
                     /\ error' = [step |-> "post", type |-> "OSError"]
                     /\ pc' = "except"
                  \/ /\ log' = log \o query_local_db("ok") \o query_local_db("ok")
                               \o <<Entry("info", "Final table written to csv")>>
                     /\ to_csv_calls' = to_csv_calls + 1
                     /\ final_table_csv' = n
                     /\ error' = error
                     /\ pc' = "finally"
    /\ UNCHANGED <<server, loaded_page, api_filters, rawTable, requested, page_info,
                   df, batches, fetches, writes, raised>>

Except ==
    /\ pc = "except"
    /\ IF Catches(error.type)
       THEN /\ log' = Append(log, Entry("critical", "Processing failed"))
            /\ raised' = raised
       ELSE /\ raised' = error.type
            /\ log' = log
    /\ pc' = "finally"
    /\ UNCHANGED <<server, loaded_page, api_filters, rawTable, requested, page_info,
                   df, batches, fetches, writes, post_calls, to_csv_calls, data,
                   final_table_csv, error>>

Finally ==
    /\ pc = "finally"
    /\ log' = Append(log, Stopped)
    /\ pc' = "returned"
    /\ UNCHANGED <<server, loaded_page, api_filters, rawTable, requested, page_info,
                   df, batches, fetches, writes, post_calls, to_csv_calls, data,
                   final_table_csv, error, raised>>

Next ==
    \/ CallMain
    \/ Truncate
    \/ get_api_data
    \/ check_write_df
    \/ Predicate
    \/ post_processing
    \/ Except
    \/ Finally

Spec == Init /\ [][Next]_vars

(* The call is synchronous and single threaded: an enabled step is taken. *)
LiveSpec == InitPaged /\ [][Next]_vars /\ WF_vars(Next)
----------------------------------------------------------------------------
(* Helpers of the properties *)

RECURSIVE RowsIn(_, _)
(* Rows of the first n frames of bs, every frame counted with its len() *)
RowsIn(bs, n) == IF n = 0 THEN 0 ELSE RowsIn(bs, n - 1) + bs[n].rows

RECURSIVE RowsWithColumnsIn(_, _)
(* Rows of the first n frames of bs that have at least one column *)
RowsWithColumnsIn(bs, n) ==
    IF n = 0 THEN 0
    ELSE RowsWithColumnsIn(bs, n - 1) + (IF bs[n].cols = 0 THEN 0 ELSE bs[n].rows)

RECURSIVE TableOf(_, _)
(* The table that holds, in order, the rows of the first n frames of bs that *)
(* have at least one column, each row tagged with the number of its frame    *)
TableOf(bs, n) ==
    IF n = 0 THEN << >>
    ELSE TableOf(bs, n - 1) \o
         (IF bs[n].cols = 0 THEN << >> ELSE [i \in 1..bs[n].rows |-> n])

Logged(l, e) == \E i \in 1..Len(l) : l[i] = e
LoggedAt(l, level) == \E i \in 1..Len(l) : l[i].level = level
TimesLogged(l, e) == Cardinality({i \in 1..Len(l) : l[i] = e})

(* The page loop was left through the break of the termination predicate *)
LoopExited == pc = "post" \/ post_calls > 0

AfterLoop == {"post", "except", "finally", "returned"}

LoopFailed == error.step \in {"fetch", "check_write"}

----------------------------------------------------------------------------
(* C1: after a page passed check_write_df, the loop stops (and no fetch is  *)
(* issued any more) when page * per_page >= total; otherwise the page of    *)
(* the parameter set grows by exactly 1 and the next fetch is issued with   *)
(* that page.                                                               *)
C1_TerminationPredicate ==
    [][ /\ (pc = "predicate" =>
              IF page_info.page * page_info.per_page >= page_info.total
              THEN pc' = "post" /\ api_filters'.page = api_filters.page
              ELSE pc' = "fetch" /\ api_filters'.page = api_filters.page + 1)
        /\ (pc \in AfterLoop => fetches' = fetches /\ pc' \in AfterLoop)
        /\ (pc = "fetch" => fetches' = fetches + 1 /\ requested' = api_filters.page)
      ]_vars

C1_Witness ==
    /\ pc = "post"
    /\ fetches = 2
    /\ requested = loaded_page + 1
    /\ page_info.page * page_info.per_page = page_info.total

(* C2 as claimed: once the loop has exited through the predicate, the row   *)
(* count of the Raw Data Table is the number of rows of the frames fetched. *)
C2_AsClaimed ==
    LoopExited => Len(rawTable) = RowsIn(batches, Len(batches))

(* C2 amended: once the loop has exited through the predicate, the Raw Data *)
(* Table holds no row of before the call and its row count is the number of *)
(* rows of the fetched frames that have at least one column.                *)
C2_RoundTrip ==
    LoopExited =>
        /\ Len(rawTable) = RowsWithColumnsIn(batches, Len(batches))
        /\ \A i \in 1..Len(rawTable) : rawTable[i] # PriorRow

C2_Witness ==
    /\ pc = "returned"
    /\ post_calls = 1
    /\ Len(batches) = 2
    /\ Len(rawTable) = 3

(* C3 as claimed: a frame with rows and a column count other than 5, the    *)
(* count 0 included, makes check_write_df raise and append nothing.         *)
C3_AsClaimed ==
    [][ (pc = "check_write" /\ df.rows > 0 /\ df.cols # 5) =>
            /\ error' = [step |-> "check_write", type |-> "IndexError"]
            /\ rawTable' = rawTable
      ]_vars

(* C3 amended: a frame with rows and a column count other than 0 and 5      *)
(* makes check_write_df raise IndexError and append nothing; a frame with   *)
(* rows and 0 columns is empty: nothing is appended and nothing is raised.  *)
C3_ColumnContract ==
    [][ /\ (pc = "check_write" /\ df.rows > 0 /\ df.cols \notin {0, 5}) =>
              /\ error' = [step |-> "check_write", type |-> "IndexError"]
              /\ pc' = "except"
              /\ rawTable' = rawTable
              /\ writes' = writes
        /\ (pc = "check_write" /\ df.rows > 0 /\ df.cols = 0) =>
              /\ error' = NoError
              /\ pc' = "predicate"
              /\ rawTable' = rawTable
              /\ writes' = writes
      ]_vars

C3_Witness ==
    /\ error = [step |-> "check_write", type |-> "IndexError"]
    /\ df.rows > 0
    /\ df.cols = 6
    /\ pc = "returned"

(* C4: post_processing is called at most once, only after the loop's break  *)
(* on a page that satisfies the predicate; a call that returns without a    *)
(* failure of the truncate, a fetch or a validate-and-write has called it   *)
(* exactly once.  Against a paged server with per_page = 2 and total = 3,   *)
(* starting at page 1 with 5-column frames, such a call makes 2 fetches,    *)
(* appends 3 rows and calls post_processing once.                           *)
C4_PostProcessingOnce ==
    /\ post_calls <= 1
    /\ (post_calls = 1 =>
          /\ pc \in {"except", "finally", "returned"}
          /\ fetches >= 1
          /\ page_info.page * page_info.per_page >= page_info.total
          /\ error.step \in {"none", "post"})
    /\ (pc = "returned" /\ error.step \in {"none", "post"} => post_calls = 1)
    /\ (/\ pc = "returned"
        /\ server = [mode |-> "paged", per_page |-> 2, total |-> 3]
        /\ loaded_page = 1
        /\ error.step \in {"none", "post"}
        /\ \A i \in 1..Len(batches) : batches[i].cols = 5)
       => (fetches = 2 /\ Len(rawTable) = 3 /\ writes = 2 /\ post_calls = 1)

C4_Witness ==
    /\ pc = "returned"
    /\ server = [mode |-> "paged", per_page |-> 2, total |-> 3]
    /\ loaded_page = 1
    /\ error = NoError
    /\ batches = <<[rows |-> 2, cols |-> 5], [rows |-> 1, cols |-> 5]>>
    /\ post_calls = 1

(* C5: once a step has failed, no fetch, append, post-processing or file    *)
(* write follows; when the call returns, the failure has been logged at     *)
(* critical severity, no exception leaves Truvi.main, and the "stopped"     *)
(* line is the last record of the log and occurs once, failure or not.      *)
C5_FailureBoundary ==
    [][ /\ (error # NoError =>
              /\ fetches' = fetches
              /\ writes' = writes
              /\ rawTable' = rawTable
              /\ post_calls' = post_calls
              /\ to_csv_calls' = to_csv_calls
              /\ final_table_csv' = final_table_csv
              /\ error' = error)
        /\ (pc' = "returned" =>
              /\ raised' = "none"
              /\ log'[Len(log')] = Stopped
              /\ TimesLogged(log', Stopped) = 1
              /\ (error' # NoError =>
                    Logged(log', Entry("critical", "Processing failed"))))
        /\ (pc' # "returned" => ~Logged(log', Stopped))
      ]_vars

C5_Witness ==
    /\ pc = "returned"
    /\ error = [step |-> "check_write", type |-> "DBAPIError"]
    /\ fetches = 2
    /\ LoggedAt(log, "critical")

(* C6: when post_processing has read an empty final view it has raised its  *)
(* ValueError and final_table.csv has not been written.                     *)
C6_EmptyViewFails ==
    data = 0 =>
        /\ error = [step |-> "post", type |-> "ValueError: No data in view"]
        /\ to_csv_calls = 0
        /\ final_table_csv = NoFile

C6_Witness ==
    /\ data = 0
    /\ pc = "returned"
    /\ post_calls = 1

(* C7: the loaded configuration keeps the values it was loaded with: the    *)
(* page of api_filters is the starting page at every point of the call.     *)
C7_ConfigImmutable ==
    api_filters.page = loaded_page

(* C8: check_write_df on an empty frame calls no to_sql, leaves the Raw     *)
(* Data Table as it is and raises nothing; when the first response has      *)
(* total = 0 and no results, the loop breaks on that page with nothing      *)
(* appended, and post_processing is called after that single fetch.         *)
C8_EmptyBatch ==
    [][ /\ (pc = "check_write" /\ (df.rows = 0 \/ df.cols = 0)) =>
              /\ writes' = writes
              /\ rawTable' = rawTable
              /\ error' = NoError
              /\ pc' = "predicate"
        /\ (pc = "predicate" /\ fetches = 1 /\ page_info.total = 0 /\ df.rows = 0) =>
              /\ pc' = "post"
              /\ rawTable' = << >>
              /\ writes' = 0
        /\ (pc = "post" /\ page_info.total = 0 /\ batches = <<[rows |-> 0, cols |-> 0]>>) =>
              /\ post_calls' = 1
              /\ fetches' = 1
              /\ rawTable' = << >>
      ]_vars

C8_Witness ==
    /\ pc = "returned"
    /\ page_info.total = 0
    /\ batches = <<[rows |-> 0, cols |-> 0]>>
    /\ post_calls = 1
    /\ fetches = 1
    /\ writes = 0

(* C9: against a server that echoes the requested page and reports one      *)
(* per_page >= 1 and one total, every call of Truvi.main returns.           *)
C9_Terminates ==
    <>(pc = "returned")

C9_Witness ==
    /\ pc = "returned"
    /\ error = NoError
    /\ fetches >= 3
    /\ server.mode = "paged"

(* C9, second half: a response with per_page = 0 and total > 0 never ends   *)
(* the loop; the loop goes on to the next fetch.                            *)
C9_ZeroPerPageContinues ==
    [][ (pc = "predicate" /\ page_info.per_page = 0 /\ page_info.total > 0) =>
            pc' = "fetch" ]_vars

(* C10 as claimed: after the k-th fetch or validate-and-write failed, the   *)
(* Raw Data Table holds the rows of the frames of pages 1..k-1.             *)
C10_AsClaimed ==
    LoopFailed => Len(rawTable) = RowsIn(batches, fetches - 1)

(* C10 amended: after the k-th fetch or validate-and-write failed, the Raw  *)
(* Data Table holds exactly the rows of those frames of pages 1..k-1 that   *)
(* have at least one column, post_processing is not called and no file is   *)
(* written.                                                                 *)
C10_NoRollback ==
    LoopFailed =>
        /\ rawTable = TableOf(batches, fetches - 1)
        /\ post_calls = 0
        /\ to_csv_calls = 0
        /\ final_table_csv = NoFile

C10_Witness ==
    /\ pc = "returned"
    /\ error = [step |-> "check_write", type |-> "DBAPIError"]
    /\ fetches = 3
    /\ Len(rawTable) = 2

====
